---- MODULE Spec2Model ----
(***************************************************************************)
(* File upload function app: storage selection with local fallback and     *)
(* per-file batch processing.  Three variants of the code live in the      *)
(* repository and are modelled side by side:                               *)
(*   - src/functions/fileUpload/index.js and sharePointUpload/index.js     *)
(*   - unnamed/part_000 (handlers uploadFiles, sharePointUpload)           *)
(*   - unnamed/part_001 (handlers fileUpload, sharePointUpload)            *)
(* A behaviour is one invocation of one endpoint: the handlers are         *)
(* stateless, every request builds its own FileUploadHandler and           *)
(* SharePointHandler.                                                      *)
(***************************************************************************)
EXTENDS Integers, Sequences, FiniteSets, TLC

\* ---------------------------------------------------------------- bounds
MaxFiles == 2

\* ------------------------------------------------------- values and names
\* A missing or empty JavaScript string (undefined and "" are both falsy).
Undefined == ""
FileNames == {"a.txt", Undefined}
ConnStrings == {Undefined, "UseDevelopmentStorage=true"}
Truthy(s) == s # Undefined

\* A stored object's key: uuid = 0 is the caller's name used as it is,
\* uuid > 0 is `${uuidv4()}-${fileName}`.
Plain(n) == [uuid |-> 0, name |-> n]
Gen(u, n) == [uuid |-> u, name |-> n]
\* A result object that has no fileName key of its own.
NoKey == [uuid |-> -1, name |-> Undefined]

\* Where a stored object is said to be: a blob URL, a path under the local
\* upload directory, or nothing.
NoLoc == [kind |-> "none", key |-> NoKey]
BlobUrl(k) == [kind |-> "blobUrl", key |-> k]
LocalPath(k) == [kind |-> "path", key |-> k]

\* uuidv4() is modelled as a generator that never repeats: the n-th call
\* returns n.

\* One entry of a response's results (or files) array.  success is "absent"
\* where the object has no such key.
Entry(fn, su, st, url, lp, bn, err) ==
    [fileName |-> fn, success |-> su, storage |-> st, url |-> url,
     localPath |-> lp, blobName |-> bn, error |-> err]

\* What one call did: the value it returned or the error it threw, the
\* external calls it made in order, the objects it wrote, the uuids it drew
\* and whether the upload directory exists afterwards.
Ret(v, calls, wrote, uuids, dir) ==
    [thrown |-> FALSE, error |-> "", value |-> v, calls |-> calls,
     wrote |-> wrote, uuids |-> uuids, dir |-> dir]
Throw(e, calls, wrote, uuids, dir) ==
    [thrown |-> TRUE, error |-> e, value |-> NoLoc, calls |-> calls,
     wrote |-> wrote, uuids |-> uuids, dir |-> dir]

Call(op, ok) == [op |-> op, ok |-> ok]
Wrote(b, k) == [backend |-> b, key |-> k]

\* How the remote store answers one unit's calls, and how the disk answers
\* its writes ("failOnce": the first write of the unit fails, a second one
\* succeeds).
RemoteFates == {"ok", "createFail", "uploadFail"}
\* Without a connection string there is no remote store to answer.
RemoteFatesFor(c) == IF Truthy(c) THEN RemoteFates ELSE {"unused"}
\* mkdir with recursive: true succeeds on a directory that exists.
MkdirFatesFor(dir) == IF dir THEN {TRUE} ELSE BOOLEAN
DiskFates == {"ok", "fail", "failOnce"}

\* ------------------------------------- fileUpload/index.js FileUploadHandler
\* fs.mkdir(localUploadPath, {recursive: true}); an error is logged and
\* swallowed.
ensureLocalUploadPath(dir, mkdirOk) ==
    Ret(NoLoc, <<Call("mkdir", mkdirOk)>>, <<>>, 0, dir \/ mkdirOk)

\* BlobServiceClient.fromConnectionString throws on a missing or empty
\* connection string, before any network call.
uploadToBlob(conn, uuid, remote, fileName) ==
    IF ~Truthy(conn)
    THEN Throw("Invalid connection string",
               <<Call("fromConnectionString", FALSE)>>, <<>>, 0, FALSE)
    ELSE IF remote = "createFail"
    THEN Throw("createIfNotExists failed",
               <<Call("fromConnectionString", TRUE),
                 Call("createIfNotExists", FALSE)>>, <<>>, 0, FALSE)
    ELSE LET blobName == Gen(uuid, fileName)
             pre == <<Call("fromConnectionString", TRUE),
                      Call("createIfNotExists", TRUE)>>
         IN IF remote = "uploadFail"
            THEN Throw("upload failed", Append(pre, Call("upload", FALSE)),
                       <<>>, 1, FALSE)
            ELSE Ret(Entry(NoKey, "true", "blob", BlobUrl(blobName), NoLoc,
                           blobName, ""),
                     Append(pre, Call("upload", TRUE)),
                     <<Wrote("blob", blobName)>>, 1, FALSE)

\* fs.writeFile fails when the directory is missing or the disk refuses.
saveToLocal(dir, uuid, diskOk, fileName) ==
    LET uniqueFileName == Gen(uuid, fileName)
    IN IF dir /\ diskOk
       THEN Ret(Entry(uniqueFileName, "true", "local", NoLoc,
                      LocalPath(uniqueFileName), NoKey, ""),
                <<Call("writeFile", TRUE)>>,
                <<Wrote("local", uniqueFileName)>>, 1, dir)
       ELSE Throw("writeFile failed", <<Call("writeFile", FALSE)>>,
                  <<>>, 1, dir)

\* r2 ran after r1: its calls, writes and uuids follow r1's.
After(r1, r2) ==
    [r2 EXCEPT !.calls = r1.calls \o r2.calls,
               !.wrote = r1.wrote \o r2.wrote,
               !.uuids = r1.uuids + r2.uuids]

\* uploadFile with a catch branch that saves locally and forgets to return
\* what saveToLocal returned.
uploadFileBody_NoReturn(conn, dir, uuid, remote, diskOk, fileName) ==
    IF Truthy(conn)
    THEN LET b == uploadToBlob(conn, uuid, remote, fileName)
             l == After(b, saveToLocal(dir, uuid + b.uuids, diskOk, fileName))
         IN IF b.thrown
            THEN IF l.thrown THEN l
                 ELSE [l EXCEPT !.value = Entry(NoKey, "absent", "absent",
                                                NoLoc, NoLoc, NoKey, "")]
            ELSE [b EXCEPT !.dir = dir]
    ELSE saveToLocal(dir, uuid, diskOk, fileName)

\* The branch of uploadFile after the directory has been ensured.
uploadFileBody(conn, dir, uuid, remote, diskOk, fileName) ==
    IF Truthy(conn)
    THEN LET b == uploadToBlob(conn, uuid, remote, fileName)
         IN IF b.thrown
            THEN After(b, saveToLocal(dir, uuid + b.uuids, diskOk, fileName))
            ELSE [b EXCEPT !.dir = dir]
    ELSE saveToLocal(dir, uuid, diskOk, fileName)

uploadFile(conn, dir, uuid, mkdirOk, remote, diskOk, fileName) ==
    LET e == ensureLocalUploadPath(dir, mkdirOk)
    IN After(e, uploadFileBody(conn, e.dir, uuid, remote, diskOk, fileName))

\* --------------------------------------- unnamed/part_000 FileUploadHandler
\* saveToLocal writes under the caller's file name and rethrows a failure;
\* it returns the path.
p0_saveToLocal(dir, diskOk, fileName) ==
    IF dir /\ diskOk
    THEN Ret(LocalPath(Plain(fileName)), <<Call("writeFile", TRUE)>>,
             <<Wrote("local", Plain(fileName))>>, 0, dir)
    ELSE Throw("writeFile failed", <<Call("writeFile", FALSE)>>, <<>>, 0, dir)

\* uploadToBlob writes under the caller's file name and returns the blob's
\* url; its own catch branch returns what saveToLocal returns.
p0_uploadToBlob(conn, dir, remote, diskOk, fileName) ==
    LET b == IF ~Truthy(conn)
             THEN Throw("Invalid connection string",
                        <<Call("fromConnectionString", FALSE)>>, <<>>, 0, dir)
             ELSE IF remote = "createFail"
             THEN Throw("createIfNotExists failed",
                        <<Call("fromConnectionString", TRUE),
                          Call("createIfNotExists", FALSE)>>, <<>>, 0, dir)
             ELSE IF remote = "uploadFail"
             THEN Throw("upload failed",
                        <<Call("fromConnectionString", TRUE),
                          Call("createIfNotExists", TRUE),
                          Call("upload", FALSE)>>, <<>>, 0, dir)
             ELSE Ret(BlobUrl(Plain(fileName)),
                      <<Call("fromConnectionString", TRUE),
                        Call("createIfNotExists", TRUE),
                        Call("upload", TRUE)>>,
                      <<Wrote("blob", Plain(fileName))>>, 0, dir)
    IN IF b.thrown
       THEN After(b, p0_saveToLocal(dir, diskOk, fileName))
       ELSE b

\* --------------------------------------- unnamed/part_001 FileUploadHandler
\* #uploadToBlob and #saveToLocal are private; uploadFile is the one public
\* method.  The constructor starts the mkdir, uploadFile does not wait for it.
p1_PublicMethods == {"uploadFile"}

p1_uploadFile(conn, dir, uuid, remote, diskOk, fileName) ==
    uploadFileBody(conn, dir, uuid, remote, diskOk, fileName)

\* fileHandler.<method>(fileContent, fileName) as a handler of part_001
\* writes it.
p1_call(method, conn, dir, uuid, remote, diskOk, fileName) ==
    IF method \in p1_PublicMethods
    THEN p1_uploadFile(conn, dir, uuid, remote, diskOk, fileName)
    ELSE Throw("fileHandler.uploadToBlob is not a function", <<>>, <<>>, 0, dir)

\* ------------------------------------------------------------ SharePoint
Creds == {"TENANT_ID", "CLIENT_ID", "CLIENT_SECRET"}
\* The environments considered: all three values set, exactly one of them
\* missing, none set.
CredConfigs == {Creds \ m : m \in {{}, Creds} \cup {{c} : c \in Creds}}

\* A constructor testing only the two values the endpoint tests.
ClientInitialized_AsMockCheck(cr) == {"CLIENT_ID", "CLIENT_SECRET"} \subseteq cr

\* sharePointUpload/index.js: the SharePointHandler constructor leaves
\* this.client unset unless all three values are present.
ClientInitialized(cr) == Creds \subseteq cr

\* getFileFromSharePoint: throws at once without a client, otherwise one
\* Graph GET whose failure is rethrown.
getFileFromSharePoint(cr, fetchOk) ==
    IF ~ClientInitialized(cr)
    THEN Throw("SharePoint client not initialized - missing credentials",
               <<>>, <<>>, 0, FALSE)
    ELSE IF fetchOk
    THEN Ret(NoLoc, <<Call("graphGet", TRUE)>>, <<>>, 0, FALSE)
    ELSE Throw("Failed to fetch file from SharePoint",
               <<Call("graphGet", FALSE)>>, <<>>, 0, FALSE)

\* part_000 and part_001: the constructor always builds a client; a GET with
\* incomplete credentials or a missing id fails.
px_getFileFromSharePoint(cr, hasIds, fetchOk) ==
    IF fetchOk /\ hasIds /\ Creds \subseteq cr
    THEN Ret(NoLoc, <<Call("graphGet", TRUE)>>, <<>>, 0, FALSE)
    ELSE Throw("fetch failed", <<Call("graphGet", FALSE)>>, <<>>, 0, FALSE)

\* fileUpload/index.js line 74 assigns the handler function itself to
\* module.exports: the module exports no named member.
fileUploadModuleExports == {}
\* const { FileUploadHandler } = require('../fileUpload/index.js')
FileUploadHandlerImported == "FileUploadHandler" \in fileUploadModuleExports

\* ------------------------------------------------------------------ state
VARIABLES
    conn,           \* process.env.AzureStorageConnectionString
    creds,          \* the SharePoint credential values that are set
    dirExists,      \* the local upload directory exists
    pendingMkdir,   \* a mkdir started by a constructor has not completed
    blobs,          \* keys of the objects in the blob container
    locals,         \* keys of the files in the local upload directory
    overwritten,    \* writes that replaced an object stored before
    nextUuid,       \* the next value of uuidv4()
    handler,        \* the endpoint serving the current request
    pc,             \* "idle", "loop" (inside the per-file loop) or "done"
    filesKind,      \* the request's file list: "array", "missing", "string"
    files,          \* its units, in order
    idx,            \* position of the loop in files
    results,        \* the results array built so far
    effects,        \* per unit handled: what was called and written
    status,         \* HTTP status of the response (0: none yet)
    mockMode        \* the response carries mockMode: true

vars == <<conn, creds, dirExists, pendingMkdir, blobs, locals, overwritten,
          nextUuid, handler, pc, filesKind, files, idx, results,
          effects, status, mockMode>>

envVars == <<conn, creds>>
storeVars == <<dirExists, blobs, locals, overwritten, nextUuid>>
reqVars == <<handler, filesKind, files>>

\* One unit of a request: a multipart file part (length: file.length) or a
\* SharePoint file reference (hasIds: siteId, driveId and itemId are given).
Unit(n, ids, len) == [fileName |-> n, hasIds |-> ids, length |-> len]
\* Parts of a multipart form always carry a filename.
FormParts == {Unit(n, TRUE, l) : n \in FileNames \ {Undefined}, l \in {0, 1}}
\* .env.example: the configured limit on a file's size, in bytes.
MAX_FILE_SIZE == 10485760
\* req.files of the fileUpload function: originalname may be missing, and
\* the content (length: the size of file.buffer) may exceed the limit.
UploadedFiles ==
    {Unit(n, TRUE, 1) : n \in FileNames}
    \cup {Unit(n, TRUE, MAX_FILE_SIZE + 1) : n \in FileNames \ {Undefined}}
FileRefs == {Unit(n, ids, 1) : n \in FileNames, ids \in BOOLEAN}
\* A non-empty string given as `files`: each of its characters is a unit
\* without any field.
CharUnit == Unit(Undefined, FALSE, 1)

SeqsUpTo(S, n) == UNION {[1..k -> S] : k \in 0..n}

Init ==
    /\ conn \in ConnStrings
    /\ creds \in CredConfigs
    /\ dirExists = FALSE
    /\ pendingMkdir = FALSE
    /\ blobs = {}
    /\ locals = {}
    /\ overwritten = {}
    /\ nextUuid = 1
    /\ handler = "none"
    /\ pc = "idle"
    /\ filesKind = "missing"
    /\ files = <<>>
    /\ idx = 1
    /\ results = <<>>
    /\ effects = <<>>
    /\ status = 0
    /\ mockMode = FALSE

\* ----------------------------------------------------- shared bookkeeping
KeysOf(wrote, backend) ==
    {wrote[i].key : i \in {j \in DOMAIN wrote : wrote[j].backend = backend}}

\* The stores after the writes of outcome r.
Stored(r) ==
    /\ blobs' = blobs \cup KeysOf(r.wrote, "blob")
    /\ locals' = locals \cup KeysOf(r.wrote, "local")
    /\ overwritten' = overwritten
            \cup {Wrote("blob", k) : k \in KeysOf(r.wrote, "blob") \cap blobs}
            \cup {Wrote("local", k) : k \in KeysOf(r.wrote, "local") \cap locals}
    /\ nextUuid' = nextUuid + r.uuids

\* What is remembered of the handling of unit i: how the remote store
\* answered, whether the unit's content was at hand, whether the storage
\* method was called and threw, the external calls and writes made, and the
\* position in results of the entry pushed for it (0: none).
Effect(i, remote, fetched, storeCalled, r, res) ==
    [unit |-> i, remote |-> remote, fetched |-> fetched,
     storeCalled |-> storeCalled, storeThrown |-> storeCalled /\ r.thrown,
     calls |-> r.calls, wrote |-> r.wrote, result |-> res]

NoCalls == Ret(NoLoc, <<>>, <<>>, 0, FALSE)

\* A request arrives at endpoint h.
Arrive(h, kind, fs) ==
    /\ pc = "idle"
    /\ handler' = h
    /\ filesKind' = kind
    /\ files' = fs
    /\ idx' = 1
    /\ effects' = <<>>

\* The response is sent with status st.
Answer(st) ==
    /\ status' = st
    /\ pc' = "done"

EnterLoop ==
    /\ status' = 0
    /\ pc' = "loop"

InLoop(h) == pc = "loop" /\ handler = h /\ idx <= Len(files)
LoopOver(h) == pc = "loop" /\ handler = h /\ idx > Len(files)

\* { fileName: base, ...result }: a fileName key of result wins.
Spread(base, result) ==
    [result EXCEPT !.fileName = IF result.fileName = NoKey THEN base
                                 ELSE result.fileName]

Failure(fn, err) == Entry(fn, "false", "absent", NoLoc, NoLoc, NoKey, err)

OrElse(s, d) == IF Truthy(s) THEN s ELSE d

\* ------------------------------------ fileUpload/index.js: module.exports
FileUpload_Receive ==
    \E kind \in {"array", "missing"} :
    \E fs \in SeqsUpTo(UploadedFiles, MaxFiles) :
        /\ kind = "missing" => fs = <<>>
        /\ Arrive("fileUpload", kind, fs)
        /\ IF kind = "missing" \/ Len(fs) = 0
           THEN Answer(400)
           ELSE EnterLoop
        /\ results' = <<>>
        /\ mockMode' = FALSE
        /\ UNCHANGED <<envVars, storeVars, pendingMkdir>>

FileUpload_Unit ==
    /\ InLoop("fileUpload")
    /\ \E mkdirOk \in MkdirFatesFor(dirExists), remote \in RemoteFatesFor(conn),
         diskOk \in BOOLEAN :
        LET file == files[idx]
            r == uploadFile(conn, dirExists, nextUuid, mkdirOk, remote, diskOk,
                            OrElse(file.fileName, "unnamed-file"))
            entry == IF r.thrown
                     THEN Failure(Plain(OrElse(file.fileName, "unnamed-file")),
                                  r.error)
                     ELSE Spread(Plain(file.fileName), r.value)
        IN /\ results' = Append(results, entry)
           /\ effects' = Append(effects,
                   Effect(idx, remote, TRUE, TRUE, r, Len(results) + 1))
           /\ dirExists' = r.dir
           /\ Stored(r)
    /\ idx' = idx + 1
    /\ UNCHANGED <<envVars, reqVars, pendingMkdir, pc, status, mockMode>>

FileUpload_Respond ==
    /\ LoopOver("fileUpload")
    /\ Answer(200)
    /\ UNCHANGED <<envVars, storeVars, reqVars, pendingMkdir, idx, results,
                   effects, mockMode>>

\* ------------------------------ sharePointUpload/index.js: module.exports
\* The bodies a caller can send as `files`.
SPRequests ==
    {<<"missing", <<>>>>}
    \cup {<<"array", fs>> : fs \in SeqsUpTo(FileRefs, MaxFiles)}
    \cup {<<"string", [i \in 1..k |-> CharUnit]>> : k \in 1..MaxFiles}

\* files?.length is truthy.
HasLength(req) == req[1] # "missing" /\ Len(req[2]) > 0

MockEntry ==
    Entry(Plain("mock-file.txt"), "true", "local", NoLoc,
          LocalPath(Plain("mock-file.txt")), NoKey, "")

MockCheck(cr) == "CLIENT_ID" \notin cr \/ "CLIENT_SECRET" \notin cr

SharePointUpload_Mock ==
    \E req \in SPRequests :
        /\ MockCheck(creds)
        /\ Arrive("sharePointUpload", req[1], req[2])
        /\ Answer(200)
        /\ mockMode' = TRUE
        /\ results' = <<MockEntry>>
        /\ UNCHANGED <<envVars, storeVars, pendingMkdir>>

SharePointUpload_Reject ==
    \E req \in SPRequests :
        /\ ~MockCheck(creds)
        /\ ~HasLength(req)
        /\ Arrive("sharePointUpload", req[1], req[2])
        /\ Answer(400)
        /\ mockMode' = FALSE
        /\ results' = <<>>
        /\ UNCHANGED <<envVars, storeVars, pendingMkdir>>

\* new FileUploadHandler() with FileUploadHandler undefined is a TypeError,
\* caught by the handler's outer catch.
SharePointUpload_Crash ==
    \E req \in SPRequests :
        /\ ~MockCheck(creds)
        /\ HasLength(req)
        /\ ~FileUploadHandlerImported
        /\ Arrive("sharePointUpload", req[1], req[2])
        /\ Answer(500)
        /\ mockMode' = FALSE
        /\ results' = <<>>
        /\ UNCHANGED <<envVars, storeVars, pendingMkdir>>

\* ------------------------------------------------ a constructor's mkdir
\* part_000 and part_001 start fs.mkdir in the constructor and do not wait:
\* it completes at any later moment, with or without success.
MkdirComplete ==
    /\ pendingMkdir
    /\ \E ok \in MkdirFatesFor(dirExists) : dirExists' = (dirExists \/ ok)
    /\ pendingMkdir' = FALSE
    /\ UNCHANGED <<envVars, blobs, locals, overwritten, nextUuid, reqVars, pc,
                   idx, results, effects, status, mockMode>>

\* A unit the loop passes over without a call.
Skip(i, res) == Effect(i, "unused", FALSE, FALSE, NoCalls, res)

\* ------------------------------------------- part_000: app.http handlers
P0Entry(fn, url, lp, err) == Entry(fn, "absent", "absent", url, lp, NoKey, err)

P0_UploadFiles_Receive ==
    \E fs \in SeqsUpTo(FormParts, MaxFiles) :
        /\ Arrive("p0_uploadFiles", "array", fs)
        /\ EnterLoop
        /\ pendingMkdir' = TRUE
        /\ results' = <<>>
        /\ mockMode' = FALSE
        /\ UNCHANGED <<envVars, storeVars>>

\* The try/catch around uploadToBlob in both part_000 loops: the value of
\* uploadToBlob goes under url, the value of the catch branch's saveToLocal
\* under localPath; an error of that saveToLocal leaves the block.
p0_storeUnit(c, dir, remote, disk, fileName) ==
    LET r1 == p0_uploadToBlob(c, dir, remote, disk = "ok", fileName)
        r2 == After(r1, p0_saveToLocal(dir, disk = "failOnce", fileName))
    IN IF ~r1.thrown
       THEN [out |-> r1, entry |-> P0Entry(Plain(fileName), r1.value, NoLoc, "")]
       ELSE [out |-> r2, entry |-> P0Entry(Plain(fileName), NoLoc, r2.value, "")]

P0_UploadFiles_Unit ==
    /\ InLoop("p0_uploadFiles")
    /\ LET file == files[idx]
       IN IF file.length = 0
          THEN /\ effects' = Append(effects, Skip(idx, 0))
               /\ idx' = idx + 1
               /\ UNCHANGED <<storeVars, results, pc, status>>
          ELSE \E remote \in RemoteFatesFor(conn), disk \in DiskFates :
                LET u == p0_storeUnit(conn, dirExists, remote, disk,
                                      file.fileName)
                    r == u.out
                IN /\ effects' = Append(effects,
                           Effect(idx, remote, TRUE, TRUE, r,
                                  IF r.thrown THEN 0 ELSE Len(results) + 1))
                   /\ Stored(r)
                   /\ UNCHANGED dirExists
                   /\ IF r.thrown
                      THEN Answer(500) /\ UNCHANGED <<results, idx>>
                      ELSE /\ results' = Append(results, u.entry)
                           /\ idx' = idx + 1
                           /\ UNCHANGED <<pc, status>>
    /\ UNCHANGED <<envVars, reqVars, pendingMkdir, mockMode>>

P0_UploadFiles_Respond ==
    /\ LoopOver("p0_uploadFiles")
    /\ Answer(200)
    /\ UNCHANGED <<envVars, storeVars, reqVars, pendingMkdir, idx, results,
                   effects, mockMode>>

\* `!sharePointFiles || !sharePointFiles.length`
\* new ClientSecretCredential(...) with a value missing either throws (it
\* validates its arguments) or builds a client that can get no token,
\* depending on the version of @azure/identity.
CredentialCtor(cr) == {FALSE} \cup (IF Creds \subseteq cr THEN {} ELSE {TRUE})

P0_SharePointUpload_Receive ==
    \E req \in SPRequests :
        /\ Arrive("p0_sharePointUpload", req[1], req[2])
        /\ results' = <<>>
        /\ mockMode' = FALSE
        /\ IF ~HasLength(req)
           THEN Answer(400) /\ UNCHANGED pendingMkdir
           ELSE \E ctorThrows \in CredentialCtor(creds) :
                   IF ctorThrows
                   THEN Answer(500) /\ UNCHANGED pendingMkdir
                   ELSE EnterLoop /\ pendingMkdir' = TRUE
        /\ UNCHANGED <<envVars, storeVars>>

P0_SharePointUpload_Unit ==
    /\ InLoop("p0_sharePointUpload")
    /\ \E fetchOk \in BOOLEAN, remote \in RemoteFatesFor(conn), disk \in DiskFates :
        LET file == files[idx]
            f == px_getFileFromSharePoint(creds, file.hasIds, fetchOk)
            u == p0_storeUnit(conn, dirExists, remote, disk, file.fileName)
            r == IF f.thrown THEN f ELSE After(f, u.out)
            entry == IF r.thrown
                     THEN P0Entry(Plain(file.fileName), NoLoc, NoLoc, r.error)
                     ELSE u.entry
        IN /\ results' = Append(results, entry)
           /\ effects' = Append(effects,
                   Effect(idx, IF f.thrown THEN "unused" ELSE remote,
                          ~f.thrown, ~f.thrown, r, Len(results) + 1))
           /\ Stored(r)
    /\ idx' = idx + 1
    /\ UNCHANGED <<envVars, reqVars, dirExists, pendingMkdir, pc, status,
                   mockMode>>

P0_SharePointUpload_Respond ==
    /\ LoopOver("p0_sharePointUpload")
    /\ Answer(200)
    /\ UNCHANGED <<envVars, storeVars, reqVars, pendingMkdir, idx, results,
                   effects, mockMode>>

\* ------------------------------------------- part_001: app.http handlers
\* Both loops call fileHandler.uploadToBlob(content, name).
p1_HandlerCalls == "uploadToBlob"

P1_FileUpload_Receive ==
    \E fs \in SeqsUpTo(FormParts, MaxFiles) :
        /\ Arrive("p1_fileUpload", "array", fs)
        /\ EnterLoop
        /\ pendingMkdir' = TRUE
        /\ results' = <<>>
        /\ mockMode' = FALSE
        /\ UNCHANGED <<envVars, storeVars>>

\* No try/catch inside the loop: an error ends the request with 500.
P1_FileUpload_Unit ==
    /\ InLoop("p1_fileUpload")
    /\ LET file == files[idx]
       IN IF file.length = 0
          THEN /\ effects' = Append(effects, Skip(idx, 0))
               /\ idx' = idx + 1
               /\ UNCHANGED <<storeVars, results, pc, status>>
          ELSE \E remote \in RemoteFatesFor(conn), diskOk \in BOOLEAN :
                LET r == p1_call(p1_HandlerCalls, conn, dirExists, nextUuid,
                                 remote, diskOk, file.fileName)
                IN /\ effects' = Append(effects,
                           Effect(idx, remote, TRUE, TRUE, r,
                                  IF r.thrown THEN 0 ELSE Len(results) + 1))
                   /\ Stored(r)
                   /\ UNCHANGED dirExists
                   /\ IF r.thrown
                      THEN Answer(500) /\ UNCHANGED <<results, idx>>
                      ELSE /\ results' = Append(results,
                                  Spread(Plain(file.fileName), r.value))
                           /\ idx' = idx + 1
                           /\ UNCHANGED <<pc, status>>
    /\ UNCHANGED <<envVars, reqVars, pendingMkdir, mockMode>>

P1_FileUpload_Respond ==
    /\ LoopOver("p1_fileUpload")
    /\ Answer(200)
    /\ UNCHANGED <<envVars, storeVars, reqVars, pendingMkdir, idx, results,
                   effects, mockMode>>

\* `!files || !Array.isArray(files) || files.length === 0`
P1_SharePointUpload_Receive ==
    \E req \in SPRequests :
        /\ Arrive("p1_sharePointUpload", req[1], req[2])
        /\ results' = <<>>
        /\ mockMode' = FALSE
        /\ IF req[1] # "array" \/ Len(req[2]) = 0
           THEN Answer(400) /\ UNCHANGED pendingMkdir
           ELSE \E ctorThrows \in CredentialCtor(creds) :
                   IF ctorThrows
                   THEN Answer(500) /\ UNCHANGED pendingMkdir
                   ELSE EnterLoop /\ pendingMkdir' = TRUE
        /\ UNCHANGED <<envVars, storeVars>>

MissingInfo(file) == ~file.hasIds \/ ~Truthy(file.fileName)

P1_SharePointUpload_Unit ==
    /\ InLoop("p1_sharePointUpload")
    /\ LET file == files[idx]
       IN IF MissingInfo(file)
          THEN /\ results' = Append(results,
                      Failure(Plain(OrElse(file.fileName, "unknown")),
                              "Missing required SharePoint file information"))
               /\ effects' = Append(effects, Skip(idx, Len(results) + 1))
               /\ UNCHANGED storeVars
          ELSE \E fetchOk \in BOOLEAN, remote \in RemoteFatesFor(conn),
                  diskOk \in BOOLEAN :
                LET f == px_getFileFromSharePoint(creds, file.hasIds, fetchOk)
                    s == p1_call(p1_HandlerCalls, conn, dirExists, nextUuid,
                                 remote, diskOk, file.fileName)
                    r == IF f.thrown THEN f ELSE After(f, s)
                    entry == IF r.thrown
                             THEN Failure(Plain(OrElse(file.fileName, "unknown")),
                                          r.error)
                             ELSE Spread(Plain(file.fileName), r.value)
                IN /\ results' = Append(results, entry)
                   /\ effects' = Append(effects,
                           Effect(idx, IF f.thrown THEN "unused" ELSE remote,
                                  ~f.thrown, ~f.thrown, r, Len(results) + 1))
                   /\ Stored(r)
                   /\ UNCHANGED dirExists
    /\ idx' = idx + 1
    /\ UNCHANGED <<envVars, reqVars, pendingMkdir, pc, status, mockMode>>

P1_SharePointUpload_Respond ==
    /\ LoopOver("p1_sharePointUpload")
    /\ Answer(200)
    /\ UNCHANGED <<envVars, storeVars, reqVars, pendingMkdir, idx, results,
                   effects, mockMode>>

\* ------------------------------------------------------------ the system
Next ==
    \/ FileUpload_Receive
    \/ FileUpload_Unit
    \/ FileUpload_Respond
    \/ SharePointUpload_Mock
    \/ SharePointUpload_Reject
    \/ SharePointUpload_Crash
    \/ MkdirComplete
    \/ P0_UploadFiles_Receive
    \/ P0_UploadFiles_Unit
    \/ P0_UploadFiles_Respond
    \/ P0_SharePointUpload_Receive
    \/ P0_SharePointUpload_Unit
    \/ P0_SharePointUpload_Respond
    \/ P1_FileUpload_Receive
    \/ P1_FileUpload_Unit
    \/ P1_FileUpload_Respond
    \/ P1_SharePointUpload_Receive
    \/ P1_SharePointUpload_Unit
    \/ P1_SharePointUpload_Respond

Spec == Init /\ [][Next]_vars

\* ------------------------------------------- the storage method by itself
\* A FileUploadHandler of fileUpload/index.js or of part_001 is built and
\* its public uploadFile is called with valid inputs, up to MaxFiles times.
StoreNames == (FileNames \ {Undefined}) \cup {"unnamed-file"}

New_FileUploadHandler ==
    \E v \in {"uploadFile", "p1_uploadFile"} :
        /\ Arrive(v, "array", <<>>)
        /\ EnterLoop
        /\ pendingMkdir' = (v = "p1_uploadFile")
        /\ results' = <<>>
        /\ mockMode' = FALSE
        /\ UNCHANGED <<envVars, storeVars>>

\* The call returned r: a thrown error is kept as what a catch would see.
Called(n, remote, r) ==
    /\ files' = Append(files, Unit(n, TRUE, 1))
    /\ results' = Append(results,
                         IF r.thrown THEN Failure(NoKey, r.error) ELSE r.value)
    /\ effects' = Append(effects,
                         Effect(Len(files) + 1, remote, TRUE, TRUE, r,
                                Len(results) + 1))
    /\ dirExists' = r.dir
    /\ Stored(r)
    /\ UNCHANGED <<envVars, handler, filesKind, pendingMkdir, pc, idx, status,
                   mockMode>>

Call_uploadFile ==
    /\ pc = "loop" /\ handler = "uploadFile" /\ Len(files) < MaxFiles
    /\ \E n \in StoreNames, mkdirOk \in MkdirFatesFor(dirExists),
          remote \in RemoteFatesFor(conn), diskOk \in BOOLEAN :
        Called(n, remote,
               uploadFile(conn, dirExists, nextUuid, mkdirOk, remote, diskOk, n))

Call_p1_uploadFile ==
    /\ pc = "loop" /\ handler = "p1_uploadFile" /\ Len(files) < MaxFiles
    /\ \E n \in StoreNames, remote \in RemoteFatesFor(conn), diskOk \in BOOLEAN :
        Called(n, remote,
               p1_call("uploadFile", conn, dirExists, nextUuid, remote,
                       diskOk, n))

StoreNext ==
    \/ New_FileUploadHandler
    \/ Call_uploadFile
    \/ Call_p1_uploadFile
    \/ MkdirComplete

SpecStore == Init /\ [][StoreNext]_vars

\* ------------------------------------------------- the resolver by itself
\* sharePointUpload/index.js: a SharePointHandler is built from the
\* environment and its getFileFromSharePoint is called, up to MaxFiles
\* times; or the endpoint itself serves a request.
New_SharePointHandler ==
    /\ Arrive("SharePointHandler", "array", <<>>)
    /\ EnterLoop
    /\ results' = <<>>
    /\ mockMode' = FALSE
    /\ UNCHANGED <<envVars, storeVars, pendingMkdir>>

\* What the caller holds after a GET that returned: the response, of which
\* only its presence matters here.
Content == Entry(NoKey, "true", "absent", NoLoc, NoLoc, NoKey, "")

\* A GET for ids that are not given cannot succeed.
Call_getFileFromSharePoint ==
    /\ pc = "loop" /\ handler = "SharePointHandler" /\ Len(files) < MaxFiles
    /\ \E ref \in FileRefs :
        \E fetchOk \in (IF ref.hasIds THEN BOOLEAN ELSE {FALSE}) :
            LET r == getFileFromSharePoint(creds, fetchOk)
            IN /\ files' = Append(files, ref)
               /\ results' = Append(results,
                        IF r.thrown THEN Failure(NoKey, r.error) ELSE Content)
               /\ effects' = Append(effects,
                        Effect(Len(files) + 1, "unused", ~r.thrown, FALSE, r,
                               Len(results) + 1))
    /\ UNCHANGED <<envVars, storeVars, handler, filesKind, pendingMkdir, pc,
                   idx, status, mockMode>>

ResolverNext ==
    \/ New_SharePointHandler
    \/ Call_getFileFromSharePoint
    \/ SharePointUpload_Mock
    \/ SharePointUpload_Reject
    \/ SharePointUpload_Crash

SpecResolver == Init /\ [][ResolverNext]_vars

\* ------------------------------------------------------------- properties
SPHandlers == {"sharePointUpload", "p0_sharePointUpload", "p1_sharePointUpload"}

\* The request passed structural validation: a non-empty list of files and,
\* for the SharePoint endpoints, configured credentials.
Accepted ==
    /\ handler # "none"
    /\ filesKind = "array"
    /\ Len(files) > 0
    /\ handler \in SPHandlers => Creds \subseteq creds

HasEntry(i) == effects[i].result \in 1..Len(results)
EntryOf(i) == results[effects[i].result]

RemoteOps == {"fromConnectionString", "createIfNotExists", "upload"}
CallsOf(e, ops) == {k \in DOMAIN e.calls : e.calls[k].op \in ops}
LocalWriteOk(e) == \E k \in DOMAIN e.calls : e.calls[k] = Call("writeFile", TRUE)
BlobWritten(e) == KeysOf(e.wrote, "blob") # {}
LocalWritten(e) == KeysOf(e.wrote, "local") # {}

\* The entry names the unit: under the unit's own name, or under a stand-in
\* when the unit has none.
Describes(entry, file) ==
    \/ entry.fileName.name = file.fileName
    \/ ~Truthy(file.fileName) /\ entry.fileName.name \in {"unnamed-file", "unknown"}

\* C1: whenever the request passed structural validation, the response of
\* the batch is HTTP 200 (per-unit failures are inside results), on every
\* endpoint.
C1_AcceptedBatchIs200 ==
    (pc = "done" /\ Accepted) => status = 200

\* C2: for an accepted batch of N units handled by fileUpload/index.js or
\* sharePointUpload/index.js, results has exactly N entries and entry i
\* describes unit i.
C2_OneResultPerUnitInOrder ==
    (pc = "done" /\ Accepted /\ handler \in {"fileUpload", "sharePointUpload"})
        => /\ Len(results) = Len(files)
           /\ \A i \in 1..Len(files) : Describes(results[i], files[i])

\* C3: in the fileUpload handler and in part_000's uploadFiles handler a
\* failure on one unit never keeps a later unit from being attempted: when
\* the request is over every unit of the batch has been handled.
C3_EveryUnitAttempted ==
    (pc = "done" /\ filesKind = "array"
        /\ handler \in {"fileUpload", "p0_uploadFiles"})
        => \A i \in 1..Len(files) :
               files[i].length > 0 => \E j \in DOMAIN effects : effects[j].unit = i

\* A unit whose remote write failed and whose local write then succeeded.
FellBack(e) ==
    /\ e.storeCalled
    /\ e.remote \in {"createFail", "uploadFail"}
    /\ LocalWriteOk(e)

\* C4: with a connection string configured and the remote store failing
\* (container creation or blob write), uploadFile returns success with
\* storage "local" whenever the local write succeeds; the remote error does
\* not reach the caller.
C4_FallbackReturnsLocal ==
    \A i \in DOMAIN effects :
        (handler \in {"uploadFile", "p1_uploadFile"} /\ Truthy(conn)
            /\ FellBack(effects[i]))
        => /\ ~effects[i].storeThrown
           /\ results[i].success = "true"
           /\ results[i].storage = "local"
           /\ results[i].localPath.kind = "path"

\* C4 witness: both kinds of remote failure were followed by a successful
\* local write, on a part_001 handler object.
C4_Witness ==
    /\ handler = "p1_uploadFile"
    /\ Truthy(conn)
    /\ \E i, j \in DOMAIN effects :
        /\ FellBack(effects[i]) /\ effects[i].remote = "createFail"
        /\ FellBack(effects[j]) /\ effects[j].remote = "uploadFail"

\* C5: with a connection string configured and a working remote store, a
\* valid unit handed to the storage method (uploadFile, or the call
\* part_001's sharePointUpload loop makes) comes back as success, storage
\* "blob", with the blob's url, and nothing is written to local disk.
C5_WorkingRemoteGivesBlob ==
    \A i \in DOMAIN effects :
        (handler \in {"fileUpload", "p1_sharePointUpload"} /\ Truthy(conn)
            /\ effects[i].storeCalled /\ effects[i].remote = "ok")
        => /\ HasEntry(i)
           /\ EntryOf(i).success = "true"
           /\ EntryOf(i).storage = "blob"
           /\ EntryOf(i).url.kind = "blobUrl"
           /\ CallsOf(effects[i], {"writeFile"}) = {}

\* C6: without a connection string the store operation makes no call to the
\* blob client (no construction, no createIfNotExists, no upload) and what
\* it returns is reported as local storage; for uploadFile of
\* fileUpload/index.js and for part_000's uploadFiles loop.
C6_NoRemoteCallWhenUnconfigured ==
    \A i \in DOMAIN effects :
        (handler \in {"fileUpload", "p0_uploadFiles"} /\ ~Truthy(conn)
            /\ effects[i].storeCalled)
        => /\ CallsOf(effects[i], RemoteOps) = {}
           /\ (HasEntry(i) /\ ~effects[i].storeThrown)
                => /\ EntryOf(i).url = NoLoc
                   /\ EntryOf(i).localPath.kind = "path"

\* C7: an entry reports remote storage (storage "blob" or a url) only if
\* the unit's blob write completed, and a unit written to local disk is
\* reported under localPath, never under url.
C7_BlobOnlyWhenWritten ==
    \A i \in DOMAIN effects :
        HasEntry(i) =>
            /\ (EntryOf(i).storage = "blob" \/ EntryOf(i).url # NoLoc)
                    => BlobWritten(effects[i])
            /\ LocalWritten(effects[i])
                    => /\ EntryOf(i).localPath.kind = "path"
                       /\ EntryOf(i).url = NoLoc

\* C8: uploadFile of fileUpload/index.js never throws: whatever the remote
\* store, the mkdir and the write do, the call returns a result object (a
\* failed local write gives a result with success false and an error).
C8_UploadFileNeverThrows ==
    \A i \in DOMAIN effects :
        handler = "uploadFile" => ~effects[i].storeThrown

\* All keys written during the request, backend by backend.
AllWrites ==
    {<<i, k>> : i \in DOMAIN effects, k \in 1..2} \cap
    {<<i, k>> \in (DOMAIN effects) \X (1..2) : k \in DOMAIN effects[i].wrote}

\* C9: any two store calls got distinct generated names within the backend
\* they wrote to, so no stored object is overwritten by a later upload.
C9_NoOverwrite ==
    /\ overwritten = {}
    /\ \A p, q \in AllWrites :
        p # q => effects[p[1]].wrote[p[2]] # effects[q[1]].wrote[q[2]]

\* C10: on sharePointUpload/index.js and part_001's sharePointUpload, a
\* request whose files is missing, empty or not a list is answered with 400
\* and no fetch or storage call is made, whatever credentials are set.
C10_MalformedRejected ==
    (pc = "done" /\ handler \in {"sharePointUpload", "p1_sharePointUpload"}
        /\ ~(filesKind = "array" /\ Len(files) > 0))
        => status = 400 /\ effects = <<>>

\* C11: in a batch of file references handled by a sharePointUpload
\* endpoint (sharePointUpload/index.js, part_001, part_000), a reference
\* that lacks siteId, driveId, itemId or fileName gets a failure entry
\* (success false, with an error) without any Graph GET for it, and every
\* unit of the batch is handled.
C11_MissingFieldRejectedWithoutFetch ==
    (pc = "done" /\ Accepted /\ handler \in SPHandlers)
        => \A i \in 1..Len(files) :
            \E j \in DOMAIN effects :
                /\ effects[j].unit = i
                /\ MissingInfo(files[i])
                    => /\ HasEntry(j)
                       /\ EntryOf(j).success = "false"
                       /\ EntryOf(j).error # ""
                       /\ CallsOf(effects[j], {"graphGet"}) = {}

\* The endpoints the degraded mode is described for: the handler of
\* sharePointUpload/index.js and the one built on part_001's SharePointHandler.
MockModeHandlers == {"sharePointUpload", "p1_sharePointUpload"}

\* C12: with none of the SharePoint values set, the SharePoint endpoint
\* answers 200 with mockMode true, whatever the body, and has made no Graph
\* GET and no storage write.
C12_AbsentCredentialsGiveMock ==
    (pc = "done" /\ creds = {} /\ handler \in MockModeHandlers)
        => /\ status = 200
           /\ mockMode
           /\ \A j \in DOMAIN effects :
                /\ CallsOf(effects[j], {"graphGet"}) = {}
                /\ effects[j].wrote = <<>>
           /\ blobs = {} /\ locals = {}

NotConfigured == "SharePoint client not initialized - missing credentials"

\* C13: when one of the three SharePoint values is not set, every call of
\* getFileFromSharePoint (sharePointUpload/index.js) fails with the
\* not-initialized error without a Graph GET, and the endpoint of that file
\* issues no Graph GET either.
C13_IncompleteCredentialsNeverFetch ==
    (~(Creds \subseteq creds) /\ handler \in {"SharePointHandler", "sharePointUpload"})
        => \A j \in DOMAIN effects :
            /\ CallsOf(effects[j], {"graphGet"}) = {}
            /\ ~effects[j].fetched
            /\ HasEntry(j)
            /\ EntryOf(j).success = "false"
            /\ EntryOf(j).error = NotConfigured

\* The tenant id alone is missing (the endpoint's own check passes) and the
\* resolver has been called for a complete reference.
C13_Witness ==
    /\ creds = Creds \ {"TENANT_ID"}
    /\ handler = "SharePointHandler"
    /\ \E j \in DOMAIN effects :
        /\ files[effects[j].unit].hasIds
        /\ EntryOf(j).error = NotConfigured

\* C14: no unit whose content is larger than MAX_FILE_SIZE is ever written,
\* to the blob container or to the local directory.
C14_OversizeNeverWritten ==
    \A j \in DOMAIN effects :
        files[effects[j].unit].length > MAX_FILE_SIZE
            => effects[j].wrote = <<>>

\* C15: for each unit at most one blob upload and at most one local write
\* are attempted, and a local write that failed is the last call made for
\* the unit.
C15_NoRetryBeyondFallback ==
    \A j \in DOMAIN effects :
        LET e == effects[j]
        IN /\ Cardinality(CallsOf(e, {"upload"})) <= 1
           /\ Cardinality(CallsOf(e, {"writeFile"})) <= 1
           /\ \A k \in DOMAIN e.calls :
                e.calls[k] = Call("writeFile", FALSE) => k = Len(e.calls)

\* C16: a local write for a unit is issued only once the creation of the
\* local directory has completed: the unit's own awaited mkdir came before
\* it, or no mkdir started by a constructor is still under way.
C16_MkdirBeforeWrite ==
    \A j \in DOMAIN effects :
        LET e == effects[j]
        IN \A k \in CallsOf(e, {"writeFile"}) :
            \/ \E m \in CallsOf(e, {"mkdir"}) : m < k
            \/ ~pendingMkdir

\* C17: in the responses of fileUpload/index.js and sharePointUpload/index.js
\* the fileName of a unit's entry is the name the caller gave, or the
\* stand-in 'unnamed-file' / 'unknown' when none was given; it is never a
\* generated unique name.
C17_FileNameIsOriginal ==
    handler \in {"fileUpload", "sharePointUpload"}
        => \A j \in DOMAIN effects :
            HasEntry(j) =>
                LET fn == EntryOf(j).fileName
                    orig == files[effects[j].unit].fileName
                IN /\ fn.uuid = 0
                   /\ IF Truthy(orig) THEN fn.name = orig
                      ELSE fn.name \in {"unnamed-file", "unknown"}

====
